---- MODULE Spec2Model ----
(***************************************************************************)
(* Model of main.py: the synthetic telemetry generator (generate_sample),  *)
(* the per-connection WebSocket handler (websocket_telemetry) and the      *)
(* status endpoint (test_database).                                        *)
(*                                                                         *)
(* Numbers.  Python floats are modelled in fixed point: a real value v is  *)
(* the integer nearest to v * Scale.  Timestamps ts (seconds), random      *)
(* draws in [0,1), angles (radians) and all float fields of a sample are   *)
(* in units of 1/Scale; sin agrees with math.sin to within 2/Scale.        *)
(* Integer fields of a sample (timestamp, heartRate, oxygenSaturation) are *)
(* plain integers, as in the code, and equal the code's on every input the *)
(* specifications below draw.                                              *)
(***************************************************************************)
EXTENDS Integers, Sequences, FiniteSets, TLC

\* ------------------------------------------------------------------------
\* Fixed-point arithmetic
\* ------------------------------------------------------------------------

\* Denominator of the fixed-point representation of a float.
Scale == 10000

\* Variant of abs: the sign is kept.
abs_identity(x) == x

\* abs() as used on lines 84-88.
abs(x) == IF x < 0 THEN -x ELSE x

\* Quotient truncated toward zero (TLA+ \div floors).
TruncDiv(x, d) == IF x >= 0 THEN x \div d ELSE -((-x) \div d)

\* Quotient rounded to the nearest integer, ties upward.
RoundDiv(x, d) == (2 * x + d) \div (2 * d)

\* Variant of int: round(x), to the nearest integer.
int_round(x) == RoundDiv(x, Scale)

\* int(x) of Python applied to the float x / Scale: truncation toward zero.
int(x) == TruncDiv(x, Scale)

\* a * b for two fixed-point floats, rounded to the nearest unit as a float
\* product is rounded to the nearest float.
Mul(a, b) == RoundDiv(a * b, Scale)

\* pi/2, pi and 2*pi in units of 1/Scale radians.
HalfPi == 15708
Pi == 31416
TwoPi == 62832

\* sin on the first quadrant, 0 <= x <= HalfPi: the Taylor polynomial up to
\* x^9 in Horner form, every intermediate below 2^31.
SinQ(x) ==
    LET x2 == Mul(x, x)
        u4 == Scale - RoundDiv(x2, 72)
        u3 == Scale - RoundDiv(Mul(x2, u4), 42)
        u2 == Scale - RoundDiv(Mul(x2, u3), 20)
        u1 == Scale - RoundDiv(Mul(x2, u2), 6)
        s  == Mul(x, u1)
    IN  IF s > Scale THEN Scale ELSE s

\* math.sin(a): reduction to the first quadrant by the symmetries of sin.
sin(a) ==
    LET r == a % TwoPi
    IN  IF r <= HalfPi THEN SinQ(r)
        ELSE IF r <= Pi THEN SinQ(Pi - r)
        ELSE IF r <= Pi + HalfPi THEN -SinQ(r - Pi)
        ELSE -SinQ(TwoPi - r)

\* Variant of cos: sin in its place.
cos_as_sin(a) == sin(a)

\* math.cos(a).
cos(a) == sin(a + HalfPi)

\* ts / p for a period p written in hundredths (0.5 is 50): an angle in
\* units of 1/Scale radians.
Over(ts, p) == RoundDiv(ts * 100, p)

\* ------------------------------------------------------------------------
\* generate_sample (lines 71-98)
\* ------------------------------------------------------------------------

\* Number of random.random() calls of one generate_sample call: heart rate,
\* oxygen, lactate, then one per emg channel.
EmgChannels == 8
NumDraws == 3 + EmgChannels

\* motion (lines 77-81).
Motion(ts) ==
    [x |-> Mul(sin(Over(ts, 40)), 5000),
     y |-> Mul(cos(Over(ts, 50)), 5000),
     z |-> Mul(sin(Over(ts, 70)), 5000)]

\* emg (line 82): channel i of range(8) is entry i + 1 and uses draw 4 + i.
Emg(ts, rnd) ==
    [k \in 1..EmgChannels |->
        Mul(5000, sin(Over(ts, 8 + (k - 1)))) + Mul(rnd[3 + k] - 5000, 2000)]

\* eeg (lines 83-89).
Eeg(ts) ==
    [alpha |-> abs(sin(Over(ts, 90))),
     beta  |-> abs(sin(Over(ts, 70))),
     gamma |-> abs(sin(Over(ts, 50))),
     theta |-> abs(sin(Over(ts, 120))),
     delta |-> abs(sin(Over(ts, 150)))]

\* generate_sample(ts) with rnd the results of its random.random() calls in
\* the order the code makes them.
generate_sample(ts, rnd) ==
    [timestamp        |-> int(ts * 1000),
     heartRate        |-> 55 + int(25 * sin(Over(ts, 50))) + int(rnd[1] * 5),
     oxygenSaturation |-> 96 + int(rnd[2] * 3),
     lactateThreshold |-> 38000 + Mul(rnd[3], 6000),
     motion           |-> Motion(ts),
     emg              |-> Emg(ts, rnd),
     eeg              |-> Eeg(ts)]

\* json.dumps(sample) (line 109): the JSON object as the sequence of its
\* members in insertion order, nested objects likewise, the emg array as a
\* sequence.
json_dumps(sample) ==
    << <<"timestamp", sample.timestamp>>,
       <<"heartRate", sample.heartRate>>,
       <<"oxygenSaturation", sample.oxygenSaturation>>,
       <<"lactateThreshold", sample.lactateThreshold>>,
       <<"motion", << <<"x", sample.motion.x>>, <<"y", sample.motion.y>>,
                      <<"z", sample.motion.z>> >> >>,
       <<"emg", sample.emg>>,
       <<"eeg", << <<"alpha", sample.eeg.alpha>>, <<"beta", sample.eeg.beta>>,
                   <<"gamma", sample.eeg.gamma>>, <<"theta", sample.eeg.theta>>,
                   <<"delta", sample.eeg.delta>> >> >> >>

\* The value of member name of a serialized object (what a client reads).
Member(obj, name) == obj[CHOOSE i \in 1..Len(obj) : obj[i][1] = name]

\* ------------------------------------------------------------------------
\* Bounds and input sets
\* ------------------------------------------------------------------------

\* Connections (one handler invocation, i.e. one session, each).
Conns == {1, 2}

\* The environment lets time pass on its own only before this clock reading
\* (time also passes whenever a sleep runs to its deadline), in units of
\* 1/Scale s.
MaxClock == 10000

\* Frames one peer takes before its transport stops completing sends.
MaxSends == 2

\* asyncio.sleep(0.1) (line 110), in units of 1/Scale seconds.
SleepInterval == 1000

\* Amounts by which time passes between two steps of the event loop.
ClockSteps == {SleepInterval + 37}

\* Readings of the loop's monotonic clock when the server starts (its origin
\* is arbitrary, e.g. the boot of the machine), in units of 1/Scale s.
StartClocks == {8500}

\* Results of random.random(), in units of 1/Scale.
DrawValues == {0, 2000, 5000, 7000, 9500, 9999}

ConstDraws(d) == [k \in 1..NumDraws |-> d]

\* The draws of one tick of a session.
TickDraws == {<<9500, 7000, 5000, 0, 9999, 2000, 5000, 7000, 9500, 0, 9999>>}

\* The draws of the eight emg channels of a direct call.
EmgDraws == {[k \in 1..EmgChannels |-> 0],
             [k \in 1..EmgChannels |-> IF k % 2 = 0 THEN 9999 ELSE 2000]}

\* Timestamps of direct calls of generate_sample, in units of 1/Scale s.
TsValues == {-23000, -15, 0, 4, 15, 1000, 1037, 2500, 7000, 10000, 12345, 22000}

GenInputs ==
    {[ts |-> t, rnd |-> <<a, b, c>> \o e] :
        t \in TsValues, a \in DrawValues, b \in DrawValues, c \in {0, 5000, 9999},
        e \in EmgDraws}

\* Errors a transport raises from send_text, accept or close (str(e)).
TransportErrors == {"injected failure", "unexpected ASGI message"}

NoFrame == << >>
NotClosed == [pc |-> "none", resolved |-> -1, slept |-> -1]
NoSample == [timestamp |-> -1]
NoRequest == [db |-> "none", env |-> "none"]
NoResponse == [backend |-> "none"]

\* ------------------------------------------------------------------------
\* test_database (lines 25-67)
\* ------------------------------------------------------------------------
\* A text is a sequence of pieces: a literal of the source is one piece, the
\* characters of an exception's message are one piece each.  The literals
\* are written with (ok), (x) and (!) for their leading pictographs.

ShowLimit == 10
ErrLimit == 50
LongLen == 60

\* s[:n]
Prefix(s, n) == SubSeq(s, 1, IF Len(s) < n THEN Len(s) ELSE n)

\* Python's None, and the truth value of what os.getenv returns.
None == "None"
Truthy(v) == v # None /\ v # ""

\* os.getenv(name) for a variable that is unset, or set to var.value.
getenv(var) == IF var.set THEN var.value ELSE None

\* Lines 27-34.
InitialResponse ==
    [backend |-> "(ok) Running",
     database |-> <<"(x) Not Available">>,
     database_url |-> None,
     database_name |-> None,
     connection_status |-> "Not Connected",
     collections |-> << >>]

\* Lines 43-53 for a db object that is not None.  Reading db.name may
\* raise; that exception is handled by line 59.
DbPresent(r, db) ==
    LET r45 == [r EXCEPT !.database = <<"(ok) Available">>,
                         !.database_url = "(ok) Configured"]
        r47 == [r45 EXCEPT !.database_name =
                              IF db.name = "absent" THEN "(ok) Connected"
                              ELSE db.name,
                           !.connection_status = "Connected"]
    IN  IF db.name = "raises"
        THEN [r45 EXCEPT !.database = <<"(x) Error: ">> \o Prefix(db.msg, ErrLimit)]
        ELSE IF db.listOk
        THEN [r47 EXCEPT !.collections = Prefix(db.names, ShowLimit),
                         !.database = <<"(ok) Connected & Working">>]
        ELSE [r47 EXCEPT !.database =
                 <<"(!)  Connected but Error: ">> \o Prefix(db.msg, ErrLimit)]

\* Lines 36-59: the import of db and what follows it.
DbCheck(r, db) ==
    CASE db.kind = "missing" ->
            [r EXCEPT !.database =
               <<"(x) Database module not found (run enable-database first)">>]
      [] db.kind = "import_error" ->
            [r EXCEPT !.database = <<"(x) Error: ">> \o Prefix(db.msg, ErrLimit)]
      [] db.kind = "none" ->
            [r EXCEPT !.database = <<"(!)  Available but not initialized">>]
      [] db.kind = "db" -> DbPresent(r, db)

\* Lines 62-65.
EnvCheck(r, env) ==
    [r EXCEPT !.database_url =
                 IF Truthy(getenv(env.DATABASE_URL)) THEN "(ok) Set" ELSE "(x) Not Set",
              !.database_name =
                 IF Truthy(getenv(env.DATABASE_NAME)) THEN "(ok) Set" ELSE "(x) Not Set"]

\* Variant of test_database: the environment is looked at before the
\* database, whose values then stay in the response.
test_database_env_first(db, env) == DbCheck(EnvCheck(InitialResponse, env), db)

test_database(db, env) == EnvCheck(DbCheck(InitialResponse, db), env)

\* The messages of the exceptions and the collection lists of the inputs.
Digits == <<"0", "1", "2", "3", "4", "5", "6", "7", "8", "9">>
Message(n) == [i \in 1..n |-> Digits[(i % 10) + 1]]
ErrorMessages == {Message(4), Message(ErrLimit), Message(LongLen)}
CollectionNames(n) == [i \in 1..n |-> <<"collection", i>>]
CollectionCounts == {0, 3, ShowLimit, ShowLimit + 2}

\* What "from database import db" can yield: no module (ImportError), an
\* exception raised by the module, db = None, or a db object whose name is
\* absent, present or raises when read and whose list_collection_names
\* returns a list or raises.
DbStates ==
    {[kind |-> "missing", msg |-> << >>, name |-> "absent", listOk |-> FALSE, names |-> << >>],
     [kind |-> "none", msg |-> << >>, name |-> "absent", listOk |-> FALSE, names |-> << >>]}
    \cup {[kind |-> "import_error", msg |-> m, name |-> "absent", listOk |-> FALSE,
           names |-> << >>] : m \in ErrorMessages}
    \cup {[kind |-> "db", msg |-> << >>, name |-> nm, listOk |-> TRUE,
           names |-> CollectionNames(n)] :
             nm \in {"absent", "telemetry"}, n \in CollectionCounts}
    \cup {[kind |-> "db", msg |-> m, name |-> nm, listOk |-> FALSE, names |-> << >>] :
             nm \in {"absent", "telemetry", "raises"}, m \in ErrorMessages}

EnvVars ==
    {[set |-> FALSE, value |-> ""], [set |-> TRUE, value |-> ""],
     [set |-> TRUE, value |-> "mongodb://localhost:27017"]}
EnvStates == [DATABASE_URL : EnvVars, DATABASE_NAME : EnvVars]
TestInputs == [db : DbStates, env : EnvStates]

\* ------------------------------------------------------------------------
\* State
\* ------------------------------------------------------------------------

VARIABLES
    clock,      \* asyncio.get_event_loop().time(), units of 1/Scale s
    pc,         \* pc[c]: where the handler of connection c is
    peer,       \* peer[c]: "open" or "closed" (the client's end)
    ts,         \* ts[c]: the handler's local ts (line 107)
    pending,    \* pending[c]: the text handed to send_text, in flight
    sent,       \* sent[c]: the frames delivered to the peer, in order
    closes,     \* closes[c]: the ws.close calls: code, reason, outcome
    caught,     \* caught[c]: the exception an except clause caught
    raised,     \* raised[c]: the exception that left the handler
    epoch,      \* epoch[c]: the clock when the streaming loop began
    wake,       \* wake[c]: the deadline of the pending asyncio.sleep
    nGen,       \* nGen[c]: generate_sample calls made
    nSend,      \* nSend[c]: send_text calls made
    nFail,      \* nFail[c]: send_text calls that raised
    nSleep,     \* nSleep[c]: asyncio.sleep calls that returned
    tickAt,     \* tickAt[c]: the time of the latest clock read of line 107
    closedAt,   \* closedAt[c]: where the handler was when the peer closed
    call,       \* the arguments of a direct generate_sample call
    ret,        \* its return value, NoSample before the call
    request,    \* the database and environment a GET /test finds
    response    \* what test_database returns, NoResponse before the call

hvars == <<clock, pc, peer, ts, pending, sent, closes, caught, raised, epoch,
           wake, nGen, nSend, nFail, nSleep, tickAt, closedAt>>
gvars == <<call, ret, request, response>>
vars == <<hvars, gvars>>

HandlerInit ==
    /\ clock \in StartClocks
    /\ pc = [c \in Conns |-> "idle"]
    /\ peer = [c \in Conns |-> "open"]
    /\ ts = [c \in Conns |-> -1]
    /\ pending = [c \in Conns |-> NoFrame]
    /\ sent = [c \in Conns |-> << >>]
    /\ closes = [c \in Conns |-> << >>]
    /\ caught = [c \in Conns |-> "none"]
    /\ raised = [c \in Conns |-> "none"]
    /\ epoch = [c \in Conns |-> -1]
    /\ wake = [c \in Conns |-> -1]
    /\ nGen = [c \in Conns |-> 0]
    /\ nSend = [c \in Conns |-> 0]
    /\ nFail = [c \in Conns |-> 0]
    /\ nSleep = [c \in Conns |-> 0]
    /\ tickAt = [c \in Conns |-> -1]
    /\ closedAt = [c \in Conns |-> NotClosed]

Init ==
    /\ HandlerInit
    /\ call = [ts |-> 0, rnd |-> ConstDraws(0)]
    /\ ret = NoSample
    /\ request = NoRequest
    /\ response = NoResponse

\* ------------------------------------------------------------------------
\* websocket_telemetry (lines 100-118)
\* ------------------------------------------------------------------------

\* Variables a step of the handler of one connection never changes.
others == <<closedAt, peer, gvars>>

\* Variant of loop_time: the fraction of the current second (as a
\* microsecond field of a wall-clock time would give).
loop_time_subsecond(c, now) == now % Scale

\* Variant of loop_time: the time elapsed since the streaming loop of
\* connection c began.
loop_time_since_epoch(c, now) == IF pc[c] = "accepting" THEN 0 ELSE now - epoch[c]

\* asyncio.get_event_loop().time() as read by connection c at time now
\* (line 107): the loop's monotonic clock, the same for every connection.
loop_time(c, now) == now

\* Variant of Tick: generate_sample suspends before it returns, so the task
\* is parked with the clock read and nothing serialized.
TickSuspendsInGenerator(c, now, rnd) ==
    /\ tickAt' = [tickAt EXCEPT ![c] = now]
    /\ ts' = [ts EXCEPT ![c] = loop_time(c, now)]
    /\ nGen' = [nGen EXCEPT ![c] = @ + 1]
    /\ pc' = [pc EXCEPT ![c] = "generating"]
    /\ UNCHANGED <<pending, nSend>>

\* Lines 107-109 up to the suspension in send_text: read the clock at time
\* now, generate one sample, serialize it and hand it to send_text.
Tick(c, now, rnd) ==
    /\ tickAt' = [tickAt EXCEPT ![c] = now]
    /\ ts' = [ts EXCEPT ![c] = loop_time(c, now)]
    /\ \E sample \in {generate_sample(ts'[c], rnd)} :
          pending' = [pending EXCEPT ![c] = json_dumps(sample)]
    /\ nGen' = [nGen EXCEPT ![c] = @ + 1]
    /\ nSend' = [nSend EXCEPT ![c] = @ + 1]
    /\ pc' = [pc EXCEPT ![c] = "sending"]

\* The server runtime invokes the handler for a new connection; the handler
\* calls ws.accept() and suspends in it (line 102).
Connect(c) ==
    /\ pc[c] = "idle"
    /\ pc' = [pc EXCEPT ![c] = "accepting"]
    /\ UNCHANGED <<clock, ts, pending, sent, closes, caught, raised, epoch,
                   wake, nGen, nSend, nFail, nSleep, tickAt, others>>

\* Variant of AfterAccept: the handler waits for a START message of the
\* client before it streams.
AfterAcceptWaitStart(c) ==
    /\ pc' = [pc EXCEPT ![c] = "receiving"]
    /\ UNCHANGED <<ts, pending, nGen, nSend, tickAt>>

\* What the handler does when ws.accept() has returned (lines 103-109): it
\* enters the try block and runs the first iteration of the loop up to its
\* send, reading nothing from the client.
AfterAccept(c) == \E rnd \in TickDraws : Tick(c, clock, rnd)

\* ws.accept() returns.
AcceptOk(c) ==
    /\ pc[c] = "accepting"
    /\ peer[c] = "open"
    /\ epoch' = [epoch EXCEPT ![c] = clock]
    /\ AfterAccept(c)
    /\ UNCHANGED <<clock, sent, closes, caught, raised, wake, nFail, nSleep,
                   others>>

\* Variant of AcceptFail: ws.accept() inside the try block, its error caught
\* by except Exception.
AcceptFailCaught(c) ==
    /\ pc[c] = "accepting"
    /\ \E e \in TransportErrors :
          /\ caught' = [caught EXCEPT ![c] = e]
          /\ closes' = [closes EXCEPT ![c] =
                Append(@, [code |-> 1011, reason |-> e, outcome |-> "pending"])]
    /\ pc' = [pc EXCEPT ![c] = "closing"]
    /\ UNCHANGED <<clock, ts, pending, sent, raised, epoch, wake,
                   nGen, nSend, nFail, nSleep, tickAt, others>>

\* ws.accept() raises: line 102 is outside the try, the error leaves the
\* handler.
AcceptFail(c) ==
    /\ pc[c] = "accepting"
    /\ \E e \in TransportErrors : raised' = [raised EXCEPT ![c] = e]
    /\ pc' = [pc EXCEPT ![c] = "raised"]
    /\ UNCHANGED <<clock, ts, pending, sent, closes, caught, epoch, wake,
                   nGen, nSend, nFail, nSleep, tickAt, others>>

\* Variant of AfterSend: no sleep, the next iteration starts at once.
AfterSendNoSleep(c) ==
    /\ \E rnd \in TickDraws : Tick(c, clock, rnd)
    /\ UNCHANGED wake

\* Variant of AfterSend: the handler returns after a frame has been
\* delivered.
AfterSendReturn(c) ==
    /\ pending' = [pending EXCEPT ![c] = NoFrame]
    /\ pc' = [pc EXCEPT ![c] = "done"]
    /\ UNCHANGED <<ts, nGen, nSend, tickAt, wake>>

\* What the handler does when send_text has returned (line 110): it calls
\* asyncio.sleep(0.1) and suspends in it.
AfterSend(c) ==
    /\ pending' = [pending EXCEPT ![c] = NoFrame]
    /\ wake' = [wake EXCEPT ![c] = clock + SleepInterval]
    /\ pc' = [pc EXCEPT ![c] = "sleeping"]
    /\ UNCHANGED <<ts, nGen, nSend, tickAt>>

\* send_text returns: the frame is delivered.
SendOk(c) ==
    /\ pc[c] = "sending"
    /\ peer[c] = "open"
    /\ Len(sent[c]) < MaxSends
    /\ sent' = [sent EXCEPT ![c] = Append(@, pending[c])]
    /\ AfterSend(c)
    /\ UNCHANGED <<clock, closes, caught, raised, epoch, nFail, nSleep, others>>

\* Variant of OnDisconnect: the handler closes the connection itself.
OnDisconnectCloses(c) ==
    /\ caught' = [caught EXCEPT ![c] = "WebSocketDisconnect"]
    /\ closes' = [closes EXCEPT ![c] =
                    Append(@, [code |-> 1000, reason |-> "", outcome |-> "pending"])]
    /\ pc' = [pc EXCEPT ![c] = "closing"]
    /\ UNCHANGED wake

\* What the handler does when send_text raises WebSocketDisconnect
\* (lines 111-113): return.
OnDisconnect(c) ==
    /\ caught' = [caught EXCEPT ![c] = "WebSocketDisconnect"]
    /\ pc' = [pc EXCEPT ![c] = "done"]
    /\ UNCHANGED <<closes, wake>>

\* send_text raises WebSocketDisconnect: the peer has closed.
SendDisconnect(c) ==
    /\ pc[c] = "sending"
    /\ peer[c] = "closed"
    /\ pending' = [pending EXCEPT ![c] = NoFrame]
    /\ nFail' = [nFail EXCEPT ![c] = @ + 1]
    /\ OnDisconnect(c)
    /\ UNCHANGED <<clock, ts, sent, raised, epoch, nGen, nSend, nSleep, tickAt,
                   others>>

\* Variant of OnError: the error is swallowed and the loop goes on after a
\* sleep.
OnErrorContinue(c, e) ==
    /\ caught' = [caught EXCEPT ![c] = e]
    /\ wake' = [wake EXCEPT ![c] = clock + SleepInterval]
    /\ pc' = [pc EXCEPT ![c] = "sleeping"]
    /\ UNCHANGED closes

\* Variant of OnError: the failure of one connection also ends the loops of
\* the others, as a shared stop flag would.
OnErrorStopsAll(c, e) ==
    /\ caught' = [caught EXCEPT ![c] = e]
    /\ closes' = [closes EXCEPT ![c] =
                    Append(@, [code |-> 1011, reason |-> e, outcome |-> "pending"])]
    /\ pc' = [d \in Conns |-> IF d = c THEN "closing"
                               ELSE IF pc[d] \in {"sending", "sleeping"} THEN "done"
                               ELSE pc[d]]
    /\ UNCHANGED wake

\* Variant of OnError: the handler returns without a close call.
OnErrorSilent(c, e) ==
    /\ caught' = [caught EXCEPT ![c] = e]
    /\ pc' = [pc EXCEPT ![c] = "done"]
    /\ UNCHANGED <<closes, wake>>

\* What the handler does when send_text raises another Exception e
\* (lines 114-116): call ws.close(code=1011, reason=str(e)) and suspend in
\* it.
OnError(c, e) ==
    /\ caught' = [caught EXCEPT ![c] = e]
    /\ closes' = [closes EXCEPT ![c] =
                    Append(@, [code |-> 1011, reason |-> e, outcome |-> "pending"])]
    /\ pc' = [pc EXCEPT ![c] = "closing"]
    /\ UNCHANGED wake

\* send_text raises an error that is not a disconnect.
SendError(c) ==
    /\ pc[c] = "sending"
    /\ peer[c] = "open"
    /\ pending' = [pending EXCEPT ![c] = NoFrame]
    /\ nFail' = [nFail EXCEPT ![c] = @ + 1]
    /\ \E e \in TransportErrors : OnError(c, e)
    /\ UNCHANGED <<clock, ts, sent, raised, epoch, nGen, nSend, nSleep, tickAt,
                   others>>

\* ws.close returns (line 116); the function ends.
CloseOk(c) ==
    /\ pc[c] = "closing"
    /\ closes' = [closes EXCEPT ![c][Len(closes[c])].outcome = "ok"]
    /\ pc' = [pc EXCEPT ![c] = "done"]
    /\ UNCHANGED <<clock, ts, pending, sent, caught, raised, epoch, wake,
                   nGen, nSend, nFail, nSleep, tickAt, others>>

\* Variant of OnCloseError: the error of the close leaves the handler.
OnCloseErrorPropagates(c, e) ==
    /\ closes' = [closes EXCEPT ![c][Len(closes[c])].outcome = "raised"]
    /\ raised' = [raised EXCEPT ![c] = e]
    /\ pc' = [pc EXCEPT ![c] = "raised"]

\* What the handler does when ws.close raises e (lines 117-118): pass, and
\* the function ends.
OnCloseError(c, e) ==
    /\ closes' = [closes EXCEPT ![c][Len(closes[c])].outcome = "raised"]
    /\ pc' = [pc EXCEPT ![c] = "done"]
    /\ UNCHANGED raised

\* ws.close raises.
CloseFail(c) ==
    /\ pc[c] = "closing"
    /\ \E e \in TransportErrors : OnCloseError(c, e)
    /\ UNCHANGED <<clock, ts, pending, sent, caught, epoch, wake,
                   nGen, nSend, nFail, nSleep, tickAt, others>>

\* asyncio.sleep(0.1) returns, no earlier than its deadline, and the next
\* iteration runs up to its send (line 110, then lines 106-109).
SleepDone(c) ==
    /\ pc[c] = "sleeping"
    /\ clock' = IF clock < wake[c] THEN wake[c] ELSE clock
    /\ nSleep' = [nSleep EXCEPT ![c] = @ + 1]
    /\ \E rnd \in TickDraws : Tick(c, clock', rnd)
    /\ UNCHANGED <<sent, closes, caught, raised, epoch, wake, nFail, others>>

\* The client closes its end of the connection, before the handler has left
\* its loop.
PeerClose(c) ==
    /\ pc[c] \in {"accepting", "sending", "sleeping"}
    /\ peer[c] = "open"
    /\ peer' = [peer EXCEPT ![c] = "closed"]
    /\ closedAt' = [closedAt EXCEPT ![c] =
                      [pc |-> pc[c], resolved |-> Len(sent[c]) + nFail[c],
                       slept |-> nSleep[c]]]
    /\ UNCHANGED <<clock, pc, ts, pending, sent, closes, caught, raised, epoch,
                   wake, nGen, nSend, nFail, nSleep, tickAt, gvars>>

\* Time passes while no task runs and some handler has yet to return.
ClockAdvance ==
    /\ clock < MaxClock
    /\ \E c \in Conns : pc[c] \notin {"done", "raised"}
    /\ \E d \in ClockSteps : clock' = clock + d
    /\ UNCHANGED <<pc, peer, ts, pending, sent, closes, caught, raised, epoch,
                   wake, nGen, nSend, nFail, nSleep, tickAt, closedAt, gvars>>

\* One step of connection c: of its handler, its transport or its peer.
Step(c) ==
    \/ Connect(c)
    \/ AcceptOk(c)
    \/ AcceptFail(c)
    \/ SendOk(c)
    \/ SendDisconnect(c)
    \/ SendError(c)
    \/ CloseOk(c)
    \/ CloseFail(c)
    \/ SleepDone(c)
    \/ PeerClose(c)

Next ==
    \/ ClockAdvance
    \/ \E c \in Conns : Step(c)

Spec == Init /\ [][Next]_vars

\* The event loop resumes a task whose await can complete: a send that stays
\* pending is completed by the transport and a sleep ends when its timer
\* fires.
Fairness ==
    \A c \in Conns : WF_vars(SendOk(c)) /\ WF_vars(SleepDone(c))

\* The steps of the connections alone: the clock moves when a sleep ends.
\* No guard of a step reads the clock, so the order in which the steps of
\* Spec can happen is the order in which these can.
NextStream == \E c \in Conns : Step(c)

FairSpec == Init /\ [][NextStream]_vars /\ Fairness

\* ------------------------------------------------------------------------
\* Cancellation of a handler's task
\* ------------------------------------------------------------------------

\* Variant of OnCancel: CancelledError handled by the except Exception
\* clause (lines 114-116) when it is raised inside the try block.
OnCancelCaught(c) ==
    IF pc[c] \in {"sending", "sleeping"}
    THEN /\ caught' = [caught EXCEPT ![c] = "CancelledError"]
         /\ closes' = [closes EXCEPT ![c] =
               Append(@, [code |-> 1011, reason |-> "", outcome |-> "pending"])]
         /\ pc' = [pc EXCEPT ![c] = "closing"]
         /\ UNCHANGED raised
    ELSE /\ raised' = [raised EXCEPT ![c] = "CancelledError"]
         /\ pc' = [pc EXCEPT ![c] = "raised"]
         /\ UNCHANGED <<caught, closes>>

\* What the handler does when the await it is suspended in raises
\* asyncio.CancelledError: the exception derives from BaseException, neither
\* except clause (lines 111, 114, 117) matches it, and it leaves the handler.
OnCancel(c) ==
    /\ raised' = [raised EXCEPT ![c] = "CancelledError"]
    /\ pc' = [pc EXCEPT ![c] = "raised"]
    /\ closes' = [closes EXCEPT ![c] =
          IF pc[c] = "closing"
          THEN [closes[c] EXCEPT ![Len(closes[c])].outcome = "cancelled"]
          ELSE closes[c]]
    /\ UNCHANGED caught

\* The server cancels the task of connection c while it is suspended in an
\* await (lines 102, 109, 110, 116): the await is abandoned.
Cancel(c) ==
    /\ pc[c] \in {"accepting", "sending", "sleeping", "closing"}
    /\ pending' = [pending EXCEPT ![c] = NoFrame]
    /\ OnCancel(c)
    /\ UNCHANGED <<clock, ts, sent, epoch, wake, nGen, nSend, nFail, nSleep,
                   tickAt, others>>

NextCancel ==
    \/ Next
    \/ \E c \in Conns : Cancel(c)

SpecCancel == Init /\ [][NextCancel]_vars

\* ------------------------------------------------------------------------
\* Direct calls of generate_sample
\* ------------------------------------------------------------------------

InitGen ==
    /\ HandlerInit
    /\ call \in GenInputs
    /\ ret = NoSample
    /\ request = NoRequest
    /\ response = NoResponse

\* One call generate_sample(call.ts) whose draws are call.rnd.
Generate ==
    /\ ret = NoSample
    /\ ret' = generate_sample(call.ts, call.rnd)
    /\ UNCHANGED <<call, request, response, hvars>>

NextGen == Generate

SpecGen == InitGen /\ [][NextGen]_vars

\* ------------------------------------------------------------------------
\* Calls of test_database
\* ------------------------------------------------------------------------

InitTest ==
    /\ HandlerInit
    /\ call = [ts |-> 0, rnd |-> ConstDraws(0)]
    /\ ret = NoSample
    /\ request \in TestInputs
    /\ response = NoResponse

\* One GET /test.
TestDatabase ==
    /\ response = NoResponse
    /\ response' = test_database(request.db, request.env)
    /\ UNCHANGED <<call, ret, request, hvars>>

NextTest == TestDatabase

SpecTest == InitTest /\ [][NextTest]_vars

\* ------------------------------------------------------------------------
\* Properties
\* ------------------------------------------------------------------------

\* The positions of the handler: none of them reads from the client.
Positions == {"idle", "accepting", "sending", "sleeping", "closing", "done", "raised"}

Streaming == {"sending", "sleeping"}

\* The timestamp member of a delivered frame.
FrameTime(frame) == Member(frame, "timestamp")[2]

\* C1: whenever a send has failed with an error that is not a peer
\* disconnect, the handler has made exactly one close call, with code 1011
\* and the error's description as reason; it is suspended in that call or it
\* has returned normally, whatever the call's outcome, and no error has left
\* the handler.
C1_SendErrorClosesOnce ==
    \A c \in Conns :
        caught[c] \in TransportErrors =>
            /\ Len(closes[c]) = 1
            /\ closes[c][1].code = 1011
            /\ closes[c][1].reason = caught[c]
            /\ raised[c] = "none"
            /\ pc[c] \in {"closing", "done"}
            /\ (pc[c] = "closing") <=> (closes[c][1].outcome = "pending")
            /\ (pc[c] = "done") <=> (closes[c][1].outcome \in {"ok", "raised"})

\* A send failed, the close raised too, and the handler has returned.
C1_Witness ==
    \E c \in Conns :
        /\ caught[c] \in TransportErrors
        /\ pc[c] = "done"
        /\ closes[c][1].outcome = "raised"

\* C2: once the peer has closed while the handler was streaming, at most one
\* more send call is made and no frame is delivered any more, at most one
\* more sleep returns, no close call is made, no error leaves the handler,
\* and the handler has returned or its next step (the return of the sleep,
\* the failure of the send by disconnect) is enabled.
C2_PeerCloseEndsSilently ==
    \A c \in Conns :
        closedAt[c].pc \in Streaming =>
            /\ nSend[c] <= closedAt[c].resolved + 1
            /\ Len(sent[c]) + nFail[c] <= closedAt[c].resolved + 1
            /\ nFail[c] = (IF pc[c] = "done" THEN 1 ELSE 0)
            /\ nSleep[c] <= closedAt[c].slept + 1
            /\ closes[c] = << >>
            /\ raised[c] = "none"
            /\ pc[c] \in Streaming \cup {"done"}
            /\ pc[c] = "sending" => ENABLED SendDisconnect(c)
            /\ pc[c] = "sleeping" => ENABLED SleepDone(c)
            /\ (pc[c] = "sleeping" => closedAt[c].pc = "sleeping" /\ nSleep[c] = closedAt[c].slept)

\* The peer closed during a sleep; one more send was tried and the handler
\* has returned.
C2_Witness ==
    \E c \in Conns :
        /\ closedAt[c].pc = "sleeping"
        /\ pc[c] = "done"
        /\ nSend[c] = closedAt[c].resolved + 1
        /\ caught[c] = "WebSocketDisconnect"

\* C3: once a send has failed, no step generates a sample, calls send_text,
\* delivers a frame or fails a second send on that connection, and the
\* handler is closing or has returned.
C3_NoRetry ==
    [][\A c \in Conns :
          nFail[c] >= 1 =>
              /\ nGen'[c] = nGen[c]
              /\ nSend'[c] = nSend[c]
              /\ sent'[c] = sent[c]
              /\ nFail'[c] = 1
              /\ pc[c] \in {"closing", "done"}
              /\ pc'[c] \in {"closing", "done"}]_vars

\* A session that delivered frames, then failed a send, has ended.
C3_Witness ==
    \E c \in Conns :
        /\ nFail[c] = 1
        /\ Len(sent[c]) >= 1
        /\ pc[c] = "done"

\* C4: the timestamps of consecutive frames delivered on one connection are
\* non-decreasing.
C4_TimestampsNonDecreasing ==
    \A c \in Conns :
        \A i \in 1..(Len(sent[c]) - 1) :
            FrameTime(sent[c][i]) <= FrameTime(sent[c][i + 1])

\* Two frames delivered on one connection, the later one with the greater
\* timestamp.
C4_Witness ==
    \E c \in Conns :
        /\ Len(sent[c]) >= 2
        /\ FrameTime(sent[c][1]) < FrameTime(sent[c][2])

\* C5: on one connection every generated sample is handed to exactly one
\* send call, which carries that sample and nothing else; a send call is
\* resolved before the next sample is generated; and between two send calls
\* one sleep has run to its deadline.
C5_TicksSequential ==
    \A c \in Conns :
        /\ nGen[c] = nSend[c]
        /\ nSend[c] = Len(sent[c]) + nFail[c] + (IF pc[c] = "sending" THEN 1 ELSE 0)
        /\ nSleep[c] = (IF nSend[c] = 0 THEN 0 ELSE nSend[c] - 1)
        /\ IF pc[c] = "sending"
              THEN \E rnd \in TickDraws :
                      pending[c] = json_dumps(generate_sample(ts[c], rnd))
              ELSE pending[c] = NoFrame
        /\ (pc[c] = "sending" /\ nSend[c] >= 2) => tickAt[c] >= wake[c]
        /\ (pc[c] = "sleeping") => wake[c] >= tickAt[c] + SleepInterval

\* The third tick of a session: two frames delivered, two sleeps, the third
\* sample in flight.
C5_Witness ==
    \E c \in Conns :
        /\ Len(sent[c]) = 2
        /\ nSleep[c] = 2
        /\ pc[c] = "sending"
        /\ nGen[c] = 3

\* C6: every generated sample has oxygenSaturation in [96, 99], heartRate in
\* [25, 105], lactateThreshold in [3.8, 4.4], every eeg band in [0, 1], eight
\* emg entries and the motion axes x, y, z.
C6_Ranges ==
    ret # NoSample =>
        /\ ret.oxygenSaturation \in 96..99
        /\ ret.heartRate \in 25..105
        /\ ret.lactateThreshold \in 38000..44000
        /\ \A b \in DOMAIN ret.eeg : ret.eeg[b] \in 0..Scale
        /\ DOMAIN ret.eeg = {"alpha", "beta", "gamma", "theta", "delta"}
        /\ Len(ret.emg) = 8
        /\ DOMAIN ret.motion = {"x", "y", "z"}

\* A sample with a negative sine under an eeg band and the largest jitters.
C6_Witness ==
    /\ ret # NoSample
    /\ call.ts = 22000
    /\ sin(Over(call.ts, 50)) < 0
    /\ ret.eeg.gamma > 0
    /\ ret.oxygenSaturation = 98
    /\ ret.lactateThreshold > 43000

\* n is x / Scale truncated toward zero.
IsTruncation(n, x) ==
    IF x >= 0 THEN n * Scale <= x /\ x < (n + 1) * Scale
              ELSE (n - 1) * Scale < x /\ x <= n * Scale

\* C7 as stated: heartRate = 55 + round(25 * sin(ts / 0.5)) + round(r1 * 5)
\* and oxygenSaturation = 96 + round(r2 * 3), round to the nearest integer.
C7_Original ==
    ret # NoSample =>
        /\ ret.heartRate = 55 + RoundDiv(25 * sin(Over(call.ts, 50)), Scale)
                              + RoundDiv(call.rnd[1] * 5, Scale)
        /\ ret.oxygenSaturation = 96 + RoundDiv(call.rnd[2] * 3, Scale)

\* C7 amended: heartRate = 55 + o + j and oxygenSaturation = 96 + k where o,
\* j and k are 25 * sin(ts / 0.5), r1 * 5 and r2 * 3 truncated toward zero,
\* so that j is in 0..4 and k in 0..2.
C7_Truncation ==
    ret # NoSample =>
        /\ \E o \in -25..25, j \in 0..4 :
              /\ IsTruncation(o, 25 * sin(Over(call.ts, 50)))
              /\ IsTruncation(j, call.rnd[1] * 5)
              /\ ret.heartRate = 55 + o + j
        /\ \E k \in 0..2 :
              /\ IsTruncation(k, call.rnd[2] * 3)
              /\ ret.oxygenSaturation = 96 + k

\* A sample whose draws r1 = r2 = 0.95 round up but truncate down, under a
\* negative oscillation.
C7_Witness ==
    /\ ret # NoSample
    /\ call.rnd[1] = 9500
    /\ call.rnd[2] = 9500
    /\ sin(Over(call.ts, 50)) < 0
    /\ ret.oxygenSaturation = 98

\* C8 as stated: the timestamp passed to generate_sample is the time elapsed
\* since the streaming loop of that connection began.
C8_Original ==
    \A c \in Conns : nGen[c] >= 1 => ts[c] = tickAt[c] - epoch[c]

\* C8 amended: the timestamp passed to generate_sample is the reading of
\* the event loop's clock at that tick, a clock shared by all sessions whose
\* origin is not the session's start: the first sample of a session is
\* generated at the clock reading at which its loop began, and the first
\* frame carries that reading in milliseconds.
C8_LoopClock ==
    \A c \in Conns :
        /\ nGen[c] >= 1 => ts[c] = tickAt[c] /\ ts[c] >= epoch[c]
        /\ nGen[c] = 1 => ts[c] = epoch[c]
        /\ Len(sent[c]) >= 1 => FrameTime(sent[c][1]) = TruncDiv(epoch[c] * 1000, Scale)

\* Two sessions that began at different times: the first frame of the later
\* one carries the later clock reading, not an elapsed time of 0.
C8_Witness ==
    \E c \in Conns, d \in Conns :
        /\ Len(sent[c]) >= 1
        /\ Len(sent[d]) >= 1
        /\ epoch[c] < epoch[d]
        /\ 0 < FrameTime(sent[c][1])
        /\ FrameTime(sent[c][1]) < FrameTime(sent[d][1])

\* C9: for ts = 0 and draws that are all 0 the sample is heartRate 55,
\* oxygenSaturation 96, lactateThreshold 3.8, motion (0, 0.5, 0), emg[0] =
\* -0.1, every eeg band 0 and timestamp 0.
C9_SchemaScenario ==
    (ret # NoSample /\ call.ts = 0 /\ call.rnd = ConstDraws(0)) =>
        /\ ret.heartRate = 55
        /\ ret.oxygenSaturation = 96
        /\ ret.lactateThreshold = 38000
        /\ ret.motion = [x |-> 0, y |-> 5000, z |-> 0]
        /\ ret.emg[1] = -1000
        /\ \A b \in DOMAIN ret.eeg : ret.eeg[b] = 0
        /\ ret.timestamp = 0

\* The call generate_sample(0) with all draws 0 has returned.
C9_Witness ==
    /\ ret # NoSample
    /\ call.ts = 0
    /\ call.rnd = ConstDraws(0)
    /\ ret.timestamp = 0

\* C10: no position of the handler reads from the client, and as soon as
\* accept has returned a sample has been generated and handed to send_text,
\* the first one at the very time accept returned.
C10_StreamsImmediately ==
    \A c \in Conns :
        /\ pc[c] \in Positions
        /\ epoch[c] >= 0 => nGen[c] >= 1 /\ nSend[c] >= 1
        /\ nGen[c] = 1 => tickAt[c] = epoch[c]
        /\ pc[c] \in {"idle", "accepting"} => nGen[c] = 0 /\ epoch[c] < 0

\* The first sample of a session is in flight right after accept; nothing
\* was delivered before.
C10_Witness ==
    \E c \in Conns :
        /\ epoch[c] >= 0
        /\ pc[c] = "sending"
        /\ nGen[c] = 1
        /\ sent[c] = << >>

\* C15 as stated: the timestamp field is ts * 1000 rounded to the nearest
\* integer.
C15_Original ==
    ret # NoSample => ret.timestamp = RoundDiv(call.ts * 1000, Scale)

\* C15 amended: the timestamp field is ts * 1000 truncated toward zero.
C15_TimestampTruncated ==
    ret # NoSample =>
        /\ IsTruncation(ret.timestamp, call.ts * 1000)
        /\ abs(ret.timestamp) * Scale <= abs(call.ts * 1000)

\* A sample for ts = 0.1037 s: 103.7 ms becomes 103, and one for a negative
\* ts is covered by the formula as well.
C15_Witness ==
    /\ ret # NoSample
    /\ call.ts = 1037
    /\ ret.timestamp = 103

\* C16 as stated: when the loop is left because a send failed, no close
\* frame with an error indicator is sent.
C16_Original ==
    \A c \in Conns : nFail[c] >= 1 => closes[c] = << >>

\* C16 amended: a close carrying the error indicator (code 1011 and the
\* error's description) is attempted exactly when the loop is left by an
\* exception other than WebSocketDisconnect, which is what a failing send
\* raises; when the loop is left because the peer closed, no close is
\* attempted.
C16_CloseIffError ==
    \A c \in Conns :
        /\ (closes[c] # << >>) <=> (caught[c] \in TransportErrors)
        /\ (caught[c] \in TransportErrors) <=> (nFail[c] = 1 /\ closedAt[c].pc \notin Streaming)
        /\ caught[c] = "WebSocketDisconnect" <=> (nFail[c] = 1 /\ closedAt[c].pc \in Streaming)
        /\ \A i \in 1..Len(closes[c]) : closes[c][i].code = 1011
        /\ caught[c] = "WebSocketDisconnect" => closes[c] = << >>

\* One session left its loop by a failed send and attempted the close, the
\* other left it because its peer closed and attempted none.
C16_Witness ==
    \E c \in Conns, d \in Conns :
        /\ pc[c] = "done" /\ caught[c] \in TransportErrors /\ Len(closes[c]) = 1
        /\ pc[d] = "done" /\ caught[d] = "WebSocketDisconnect" /\ closes[d] = << >>

\* C18: before ws.accept() has returned no sample is generated, handed to
\* send_text or delivered; and when ws.accept() raises, the error leaves
\* the handler, which has generated and sent nothing, caught nothing and
\* attempted no close.
C18_AcceptFirst ==
    \A c \in Conns :
        /\ epoch[c] < 0 =>
              /\ nGen[c] = 0 /\ nSend[c] = 0
              /\ sent[c] = << >> /\ pending[c] = NoFrame
              /\ closes[c] = << >> /\ caught[c] = "none"
              /\ pc[c] \in {"idle", "accepting", "raised"}
        /\ pc[c] = "raised" <=> raised[c] \in TransportErrors
        /\ pc[c] = "raised" => epoch[c] < 0
        /\ nGen[c] >= 1 => epoch[c] >= 0 /\ raised[c] = "none"

\* ws.accept() raised on one connection and its error left the handler.
C18_Witness ==
    \E c \in Conns :
        /\ pc[c] = "raised"
        /\ raised[c] \in TransportErrors
        /\ closes[c] = << >>
        /\ nGen[c] = 0

\* The awaits in which a handler is parked while other tasks run.
Suspended == {"accepting", "sending", "sleeping", "closing"}

\* C11 as stated: a task that has been started and has not ended is parked
\* in one of exactly two places, the send and the sleep.
C11_Original ==
    \A c \in Conns : pc[c] \notin {"idle", "done", "raised"} => pc[c] \in Streaming

\* A step that generates a sample for connection c reads the clock,
\* generates, serializes and hands the frame to send_text, all in that step,
\* and moves no other connection.
TickIsAtomic(c) ==
    nGen'[c] # nGen[c] =>
        /\ nGen'[c] = nGen[c] + 1 /\ nSend'[c] = nSend[c] + 1
        /\ tickAt'[c] = clock' /\ ts'[c] = loop_time(c, clock')
        /\ pc'[c] = "sending"
        /\ \E rnd \in TickDraws :
              pending'[c] = json_dumps(generate_sample(ts'[c], rnd))
        /\ \A d \in Conns \ {c} :
              /\ pc'[d] = pc[d] /\ nGen'[d] = nGen[d] /\ ts'[d] = ts[d]
              /\ pending'[d] = pending[d] /\ sent'[d] = sent[d]

\* C11 amended: inside its loop a task is parked only in the send or in the
\* sleep, and outside the loop only in ws.accept() or ws.close(); reading
\* the clock, generating and serializing are one step in which no other
\* connection moves, and the generator is never a place where a task is
\* parked.
C11_YieldPoints ==
    /\ [](\A c \in Conns :
            /\ pc[c] \in Positions
            /\ pc[c] \notin {"idle", "done", "raised"} => pc[c] \in Suspended
            /\ (epoch[c] >= 0 /\ caught[c] = "none") <=> pc[c] \in Streaming
            /\ nGen[c] = nSend[c])
    /\ [][\A c \in Conns : TickIsAtomic(c)]_vars

\* The ticks of two sessions interleave: one is parked in its second send
\* while the other is parked in its sleep.
C11_Witness ==
    \E c \in Conns, d \in Conns :
        /\ c # d
        /\ pc[c] = "sending" /\ nGen[c] = 2
        /\ pc[d] = "sleeping" /\ nGen[d] = 1

\* Everything the model records about one connection and its handler.
Session(c) ==
    <<pc[c], peer[c], ts[c], pending[c], sent[c], closes[c], caught[c],
      raised[c], epoch[c], wake[c], nGen[c], nSend[c], nFail[c], nSleep[c],
      tickAt[c], closedAt[c]>>

\* The handler of c has returned or its error has left it.
Ended(c) == pc[c] \in {"done", "raised"}

\* C12: a step that changes anything of one session leaves every other
\* session as it was; and whatever the other sessions have done, ended or
\* not, a session whose peer is connected can take its next step: its send
\* can complete and its sleep can end.
C12_Isolation ==
    /\ [][\A c \in Conns : \A d \in Conns \ {c} :
            Session(c)' # Session(c) => Session(d)' = Session(d)]_vars
    /\ [](\A c \in Conns : \A d \in Conns \ {c} :
            (Ended(c) /\ peer[d] = "open") =>
                /\ (pc[d] = "sending" /\ Len(sent[d]) < MaxSends) => ENABLED SendOk(d)
                /\ pc[d] = "sleeping" => ENABLED SleepDone(d)
                /\ pc[d] = "accepting" => ENABLED AcceptOk(d))

\* One session has ended on a failed send and the other, untouched, is on
\* its third tick.
C12_Witness ==
    \E c \in Conns, d \in Conns :
        /\ c # d
        /\ pc[c] = "done" /\ caught[c] \in TransportErrors
        /\ peer[d] = "open" /\ pc[d] = "sending"
        /\ Len(sent[d]) = 2 /\ caught[d] = "none"

\* C13: a handler leaves its loop only in a step in which a send fails,
\* because the peer has closed or because of a transport error; and under
\* the event loop's fairness every frame delivered (and the accept) is
\* followed by another delivered frame unless the peer closes or a send
\* fails.  The last frame the bound MaxSends admits is left out.
C13_KeepsStreaming ==
    /\ [][\A c \in Conns :
            (pc[c] \in Streaming /\ pc'[c] \notin Streaming) =>
                /\ pc[c] = "sending"
                /\ nFail'[c] = nFail[c] + 1
                /\ \/ peer[c] = "closed" /\ caught'[c] = "WebSocketDisconnect"
                   \/ caught'[c] \in TransportErrors]_vars
    /\ \A c \in Conns : \A k \in 0..(MaxSends - 1) :
            (epoch[c] >= 0 /\ Len(sent[c]) = k)
                ~> (Len(sent[c]) > k \/ peer[c] = "closed" \/ nFail[c] >= 1)

\* A session whose peer is connected and whose sends all succeeded has
\* delivered two frames and is still in its loop.
C13_Witness ==
    \E c \in Conns :
        /\ peer[c] = "open" /\ nFail[c] = 0
        /\ Len(sent[c]) = 2 /\ pc[c] = "sleeping"

\* C17: a cancellation reaches a handler only while it is parked in an
\* await; the step that delivers it ends the handler at once: the pending
\* send or sleep is abandoned, nothing is generated, sent or delivered, no
\* exception is caught and no close is attempted; and from then on no step
\* changes anything of that session.
C17_CancelEndsHandler ==
    /\ [][\A c \in Conns :
            (raised'[c] = "CancelledError" /\ raised[c] # "CancelledError") =>
                /\ pc[c] \in Suspended /\ pc'[c] = "raised"
                /\ pending'[c] = NoFrame
                /\ nGen'[c] = nGen[c] /\ nSend'[c] = nSend[c]
                /\ sent'[c] = sent[c] /\ nFail'[c] = nFail[c]
                /\ nSleep'[c] = nSleep[c]
                /\ caught'[c] = caught[c]
                /\ Len(closes'[c]) = Len(closes[c])]_vars
    /\ [][\A c \in Conns :
            raised[c] = "CancelledError" => Session(c)' = Session(c)]_vars
    /\ [](\A c \in Conns : caught[c] # "CancelledError")

\* One task was cancelled in a send, its frame abandoned, and the other in
\* a sleep after a delivered frame; neither attempted a close.
C17_Witness ==
    \E c \in Conns, d \in Conns :
        /\ raised[c] = "CancelledError" /\ nSend[c] = Len(sent[c]) + 1
        /\ nFail[c] = 0 /\ closes[c] = << >>
        /\ raised[d] = "CancelledError" /\ nSend[d] = Len(sent[d])
        /\ Len(sent[d]) >= 1 /\ closes[d] = << >>

\* The text the database field must carry for what the request found; for
\* an exception, the head of the text.
Describes(text, db) ==
    CASE db.kind = "missing" ->
            text = <<"(x) Database module not found (run enable-database first)">>
      [] db.kind = "none" -> text = <<"(!)  Available but not initialized">>
      [] db.kind = "import_error" \/ (db.kind = "db" /\ db.name = "raises") ->
            /\ text[1] = "(x) Error: "
            /\ Len(text) = 1 + (IF Len(db.msg) < ErrLimit THEN Len(db.msg) ELSE ErrLimit)
            /\ \A i \in 2..Len(text) : text[i] = db.msg[i - 1]
      [] db.kind = "db" /\ db.name # "raises" /\ ~db.listOk ->
            /\ text[1] = "(!)  Connected but Error: "
            /\ Len(text) = 1 + (IF Len(db.msg) < ErrLimit THEN Len(db.msg) ELSE ErrLimit)
            /\ \A i \in 2..Len(text) : text[i] = db.msg[i - 1]
      [] db.kind = "db" /\ db.name # "raises" /\ db.listOk ->
            text = <<"(ok) Connected & Working">>

\* The rest of C19, which both readings of "set" share: a response is
\* returned for every request, its database field describes what was found
\* and its collections are the first ten at most.
StatusReported ==
    /\ response = NoResponse => ENABLED TestDatabase
    /\ response # NoResponse =>
        /\ response.backend = "(ok) Running"
        /\ Describes(response.database, request.db)
        /\ Len(response.collections) <= ShowLimit
        /\ \A i \in 1..Len(response.collections) :
              response.collections[i] = request.db.names[i]
        /\ Len(response.collections) < ShowLimit =>
              Len(response.collections) = Len(request.db.names)
        /\ response.database_url \in {"(ok) Set", "(x) Not Set"}
        /\ response.database_name \in {"(ok) Set", "(x) Not Set"}

\* C19 as stated: database_url and database_name say whether the variables
\* are set.
C19_Original ==
    /\ StatusReported
    /\ response # NoResponse =>
        /\ response.database_url = "(ok) Set" <=> request.env.DATABASE_URL.set
        /\ response.database_name = "(ok) Set" <=> request.env.DATABASE_NAME.set

\* C19 amended: database_url and database_name say whether the variables
\* are set to a non-empty value, whatever the database object provided.
C19_StatusNeverFails ==
    /\ StatusReported
    /\ response # NoResponse =>
        /\ response.database_url = "(ok) Set" <=>
              (request.env.DATABASE_URL.set /\ request.env.DATABASE_URL.value # "")
        /\ response.database_name = "(ok) Set" <=>
              (request.env.DATABASE_NAME.set /\ request.env.DATABASE_NAME.value # "")

\* A response for a database that lists twelve collections and has a name,
\* with DATABASE_URL set to the empty string and DATABASE_NAME unset.
C19_Witness ==
    /\ response # NoResponse
    /\ request.db.kind = "db" /\ request.db.name = "telemetry"
    /\ Len(request.db.names) = ShowLimit + 2
    /\ Len(response.collections) = ShowLimit
    /\ request.env.DATABASE_URL = [set |-> TRUE, value |-> ""]
    /\ ~request.env.DATABASE_NAME.set
    /\ response.database_url = "(x) Not Set"
    /\ response.database_name = "(x) Not Set"

====
